---- MODULE Spec2Model ----
(***************************************************************************)
(* nb-pin.py: bookmark a URL on pinboard.in from the command line.         *)
(*                                                                         *)
(* One run of main() is modelled: the parsed command line, the config file *)
(* on disk and the effective user are the environment; the steps are the   *)
(* statements of main(), get_auth_token() and Pinboard.__init__().         *)
(*                                                                         *)
(* The program is Python 2 (str.translate(None, deletechars), line 61).    *)
(* Strings are sequences of one-character strings, so that strip,          *)
(* partition, translate and join are computed character by character.      *)
(* A command line that argparse rejects (exit status 2 inside parse_args)  *)
(* never reaches any statement after line 132 and is not an initial state. *)
(* Paths are taken as already expanded by os.path.expanduser.              *)
(***************************************************************************)
EXTENDS Integers, Sequences, FiniteSets, TLC

VARIABLES
    args,        \* the argparse Namespace returned by parse_args (line 132)
    fs,          \* the file system: path -> file state
    euid,        \* effective uid of the process (0 is root)
    debug,       \* the module-level global `debug` (line 25)
    main_debug,  \* the local name `debug` bound inside main (line 133)
    auth_token,  \* the local auth_token of main (line 144)
    payload,     \* the dict built by Pinboard.__init__ (lines 54-64)
    output,      \* the lines printed so far, in order
    requests,    \* the HTTP GETs issued so far, in order
    outcomes,    \* what each completed requests.get did, in order
    steps,       \* history: the steps of the run taken so far, in order
    pc,          \* position in main
    exitStatus   \* the process exit status once pc = "exited", else -1

vars == <<args, fs, euid, debug, main_debug, auth_token, payload, output,
          requests, outcomes, steps, pc, exitStatus>>

---------------------------------------------------------------------------
(* Bounds of the model *)

\* longest -t/--tag list drawn in SpecTags
MaxTags == 3
\* most lines of a config file drawn in SpecToken
MaxLines == 2

---------------------------------------------------------------------------
(* Strings *)

Range(s) == {s[i] : i \in DOMAIN s}

SeqsUpTo(S, n) == UNION {[1..k -> S] : k \in 0..n}

YES == <<"y", "e", "s">>
NO == <<"n", "o">>
AUTH_TOKEN == <<"a", "u", "t", "h", "_", "t", "o", "k", "e", "n">>

\* the characters str.strip() removes
Whitespace == {" ", "\t", "\n", "\r"}

RECURSIVE LStrip(_)
LStrip(s) ==
    IF s # <<>> /\ Head(s) \in Whitespace THEN LStrip(Tail(s)) ELSE s

RECURSIVE RStrip(_)
RStrip(s) ==
    IF s # <<>> /\ s[Len(s)] \in Whitespace
    THEN RStrip(SubSeq(s, 1, Len(s) - 1))
    ELSE s

\* str.strip()
Strip(s) == RStrip(LStrip(s))

\* str.startswith(prefix)
StartsWith(s, prefix) ==
    Len(s) >= Len(prefix) /\ SubSeq(s, 1, Len(prefix)) = prefix

\* str.rpartition(sep) for a one-character sep: split at the LAST sep
RPartition(s, sep) ==
    LET hits == {i \in DOMAIN s : s[i] = sep}
    IN  IF hits = {} THEN <<s, <<>>, <<>>>>
        ELSE LET i == CHOOSE j \in hits : \A k \in hits : k <= j
             IN  <<SubSeq(s, 1, i - 1), <<sep>>, SubSeq(s, i + 1, Len(s))>>

\* str.partition(sep) for a one-character sep: split at the FIRST sep;
\* without a sep the whole string is the head and sep and tail are empty
Partition(s, sep) ==
    LET hits == {i \in DOMAIN s : s[i] = sep}
    IN  IF hits = {} THEN <<s, <<>>, <<>>>>
        ELSE LET i == CHOOSE j \in hits : \A k \in hits : j <= k
             IN  <<SubSeq(s, 1, i - 1), <<sep>>, SubSeq(s, i + 1, Len(s))>>

\* str.translate(None, deletechars): drop every character in deletechars
Translate(s, deletechars) == SelectSeq(s, LAMBDA c : c \notin deletechars)

\* sep.join(list)
RECURSIVE Join(_, _)
Join(list, sep) ==
    IF list = <<>> THEN <<>>
    ELSE IF Len(list) = 1 THEN list[1]
    ELSE list[1] \o sep \o Join(Tail(list), sep)

---------------------------------------------------------------------------
(* The file system and the permission check *)

\* stat.S_IRWXG, stat.S_IRWXO: the group and other permission bits
S_IRWXG == 56
S_IRWXO == 7
\* the owner's read bit, which open(file_path, "r") needs unless root
S_IRUSR == 256

RECURSIVE BitAnd(_, _)
BitAnd(a, b) ==
    IF a = 0 \/ b = 0 THEN 0
    ELSE (a % 2) * (b % 2) + 2 * BitAnd(a \div 2, b \div 2)

\* a | b for masks with no common bit
BitOr(a, b) == a + b - BitAnd(a, b)

Missing == [exists |-> FALSE, kind |-> "none", mode |-> 0, lines |-> <<>>]

File(mode, lines) ==
    [exists |-> TRUE, kind |-> "file", mode |-> mode, lines |-> lines]

Dir(mode) == [exists |-> TRUE, kind |-> "dir", mode |-> mode, lines |-> <<>>]

\* os.path.exists(path)
Exists(path) == fs[path].exists

\* line 113 with only the "other" bits tested
UnsafeModeOtherOnly(mode) == BitAnd(mode, S_IRWXO) # 0

\* line 113: info.st_mode & (stat.S_IRWXG | stat.S_IRWXO)
UnsafeMode(mode) == BitAnd(mode, BitOr(S_IRWXG, S_IRWXO)) # 0

\* whether open(file_path, "r") and the read of its lines succeed: the path
\* is a regular file and the user may read it (the file is the user's own;
\* root reads whatever the mode)
CanRead(f, uid) ==
    /\ f.kind = "file"
    /\ (uid = 0 \/ BitAnd(f.mode, S_IRUSR) # 0)

---------------------------------------------------------------------------
(* get_auth_token *)

\* a printed line: a format string and the values substituted into it
Line(fmt, fargs) == [fmt |-> fmt, args |-> fargs]

\* a value substituted into a line: a string, a path, an int, a dict
\* (printed with every key and value), the argparse Namespace (printed
\* with every attribute) or the text of an exception
VStr(s) == [t |-> "str", v |-> s]
VPath(p) == [t |-> "path", v |-> p]
VInt(n) == [t |-> "int", v |-> n]
VDict(d) == [t |-> "dict", v |-> d]
VNamespace(a) == [t |-> "namespace", v |-> a]
VExc(e) == [t |-> "exc", v |-> e]

NoLine == Line("", <<>>)

Returned(value) == [raised |-> FALSE, msg |-> NoLine, value |-> value]
Raised(msg) == [raised |-> TRUE, msg |-> msg, value |-> <<>>]

\* str(e) of the IOError that open() or the read raises (line 116)
IOErrorText(f, path) ==
    Line("[Errno %s] %s: '%s'",
         <<VInt(IF f.kind = "dir" THEN 21 ELSE 13),
           VExc(IF f.kind = "dir" THEN "Is a directory"
                ELSE "Permission denied"),
           VPath(path)>>)

\* lines 117-124: the loop over the file's lines, from line i on; each line
\* the file iterator yields ends with its newline
RECURSIVE ScanLines(_, _)
ScanLines(lines, i) ==
    IF i > Len(lines) THEN <<>>
    ELSE LET line == Strip(lines[i] \o <<"\n">>)
         IN  IF line = <<>> \/ StartsWith(line, <<"#">>)
             THEN ScanLines(lines, i + 1)
             ELSE LET p == Partition(line, "=")
                  IN  IF p[1] = AUTH_TOKEN THEN p[3]
                      ELSE ScanLines(lines, i + 1)

\* get_auth_token(config_file): what it returns or raises
get_auth_token(config_file) ==
    LET info == fs[config_file]
    IN  IF UnsafeMode(info.mode)
        THEN Raised(Line("ERROR: %s should not be accessable to others",
                         <<VPath(config_file)>>))
        ELSE IF ~CanRead(info, euid)
        THEN Raised(IOErrorText(info, config_file))
        ELSE Returned(ScanLines(info.lines, 1))

---------------------------------------------------------------------------
(* Pinboard.__init__: the payload *)

EmptyDict == [k \in {} |-> <<>>]

\* line 58 without the test
HasExtendedAlways(desc) == TRUE

\* line 58: if desc
HasExtended(desc) == desc # <<>>

\* lines 62-64 with the two literals swapped
YesNoSwapped(flag) == IF flag THEN NO ELSE YES

\* lines 62-64: "yes" if flag else "no"
YesNo(flag) == IF flag THEN YES ELSE NO

\* line 61: " ".join([t.translate(None, " ,") for t in tags if t])
TagsValue(tags) ==
    LET kept == SelectSeq(tags, LAMBDA t : t # <<>>)
    IN  Join([i \in DOMAIN kept |-> Translate(kept[i], {" ", ","})], <<" ">>)

\* lines 54-64
BuildPayload(url, title, desc, token, tags, replace, shared, toread) ==
    LET p0 == ("auth_token" :> token) @@ ("description" :> title)
                @@ ("url" :> url) @@ EmptyDict
        p1 == IF HasExtended(desc) THEN ("extended" :> desc) @@ p0 ELSE p0
        p2 == IF tags # <<>> THEN ("tags" :> TagsValue(tags)) @@ p1 ELSE p1
    IN  ("toread" :> YesNo(toread)) @@ ("shared" :> YesNo(shared))
          @@ ("replace" :> YesNo(replace)) @@ p2

---------------------------------------------------------------------------
(* The inputs of a run *)

\* -c/--config values
Paths == {"/home/u/.pinboard-auth", "/tmp/auth"}

\* st_mode permission bits: 0000 0200 0400 0600 0700 0640 0604 0610 0601 0777
Modes == {0, 128, 256, 384, 448, 416, 388, 392, 385, 511}

\* the status codes a response carries, and the transport errors
StatusCodes == {200, 201, 500}
TransportErrors == {"ConnectionError", "Timeout"}

URL == <<"h", "t", "t", "p", ":", "/", "/", "x">>
TITLE == <<"T", "i", "t", "l", "e">>

\* -t/--tag values, among them the empty string and tags made only of the
\* characters line 61 deletes
TagStrings ==
    { <<>>, <<"a">>, <<" ">>, <<",", " ">>,
      <<"f", "o", "o", " ", "b", "a", "r">>,
      <<"b", "a", "z", ",", "q", "u", "x">> }

\* lines of a config file
ConfigLines ==
    { <<>>,
      <<" ", "\t">>,
      <<"#", " ", "c">>,
      <<" ", "#", "c">>,
      <<"#">> \o AUTH_TOKEN \o <<"=", "B">>,
      AUTH_TOKEN \o <<"=", "A", "B", "C", "1", "2", "3">>,
      AUTH_TOKEN \o <<"=", "B">>,
      <<" ">> \o AUTH_TOKEN \o <<"=", "A", " ", "\r">>,
      AUTH_TOKEN \o <<"=">>,
      AUTH_TOKEN,
      AUTH_TOKEN \o <<"=", "A", "=", "B">>,
      AUTH_TOKEN \o <<" ", "=", "B">>,
      AUTH_TOKEN \o <<"=", " ", "B">>,
      <<"o", "=", "B">>,
      <<"=">> \o AUTH_TOKEN }

\* every Namespace parse_args can return with the given tag lists,
\* descriptions and values of the four store_true flags; tag is <<>> for
\* None (no -t given: argparse never yields [])
ArgSets(Tags, Descs, Flags) ==
    [config : Paths, tag : Tags, replace : Flags, shared : Flags,
     later : Flags, debug : Flags, url : {URL}, title : {TITLE},
     description : Descs]

\* the other path of the file system holds a readable file with another token
Decoy == File(384, <<AUTH_TOKEN \o <<"=", "Z">>>>)

InitFrom(ArgSet, FileSet, Uids) ==
    /\ args \in ArgSet
    /\ \E f \in FileSet :
         fs = [p \in Paths |-> IF p = args.config THEN f ELSE Decoy]
    /\ euid \in Uids
    /\ debug = FALSE
    /\ main_debug = FALSE
    /\ auth_token = <<>>
    /\ payload = EmptyDict
    /\ output = <<>>
    /\ requests = <<>>
    /\ outcomes = <<>>
    /\ steps = <<>>
    /\ pc = "main"
    /\ exitStatus = -1

---------------------------------------------------------------------------
(* main *)

Say(line) == output' = Append(output, line)

Exit(status) == pc' = "exited" /\ exitStatus' = status

Step(name) == steps' = Append(steps, name)

Response(status) == [kind |-> "response", status |-> status, exc |-> ""]
Exception(e) == [kind |-> "exception", status |-> 0, exc |-> e]

\* lines 133-136: `debug = args.debug` binds a name local to main (there is
\* no `global debug`), so the module-level debug keeps its value
SetDebug ==
    /\ pc = "main"
    /\ Step("SetDebug")
    /\ UNCHANGED outcomes
    /\ main_debug' = args.debug
    /\ IF main_debug' THEN Say(Line("%s", <<VNamespace(args)>>))
       ELSE UNCHANGED output
    /\ pc' = "exists"
    /\ UNCHANGED <<args, fs, euid, debug, auth_token, payload, requests,
                   exitStatus>>

\* lines 139-141: the config file does not exist
CheckExistsMissing ==
    /\ pc = "exists"
    /\ Step("CheckExistsMissing")
    /\ UNCHANGED outcomes
    /\ ~Exists(args.config)
    /\ Say(Line("ERROR: Config file %s doesn't exist", <<VPath(args.config)>>))
    /\ Exit(1)
    /\ UNCHANGED <<args, fs, euid, debug, main_debug, auth_token, payload,
                   requests>>

\* line 139: the config file exists
CheckExistsOk ==
    /\ pc = "exists"
    /\ Step("CheckExistsOk")
    /\ UNCHANGED outcomes
    /\ Exists(args.config)
    /\ pc' = "load"
    /\ UNCHANGED <<args, fs, euid, debug, main_debug, auth_token, payload,
                   output, requests, exitStatus>>

\* lines 143-147 with an empty token treated like an exception
FatalOrEmpty(r) == r.raised \/ r.value = <<>>

\* lines 143-147: main gives up exactly when get_auth_token raised
Fatal(r) == r.raised

\* lines 145-147: get_auth_token raised; print str(e) and exit
LoadTokenRaises ==
    /\ pc = "load"
    /\ Step("LoadTokenRaises")
    /\ UNCHANGED outcomes
    /\ LET r == get_auth_token(args.config)
       IN  /\ Fatal(r)
           /\ Say(r.msg)
    /\ Exit(1)
    /\ UNCHANGED <<args, fs, euid, debug, main_debug, auth_token, payload,
                   requests>>

\* line 144: get_auth_token returned
LoadTokenReturns ==
    /\ pc = "load"
    /\ Step("LoadTokenReturns")
    /\ UNCHANGED outcomes
    /\ LET r == get_auth_token(args.config)
       IN  /\ ~Fatal(r)
           /\ auth_token' = r.value
    /\ pc' = "Pinboard"
    /\ UNCHANGED <<args, fs, euid, debug, main_debug, payload, output,
                   requests, exitStatus>>

\* line 66: `if debug` reads the module-level debug
PinboardDebug == debug

\* lines 149-150 and 54-67: build the payload, echo it when debugging
PinboardPayload ==
    /\ pc = "Pinboard"
    /\ Step("PinboardPayload")
    /\ UNCHANGED outcomes
    /\ payload' = BuildPayload(args.url, args.title, args.description,
                               auth_token, args.tag, args.replace,
                               args.shared, args.later)
    /\ IF PinboardDebug THEN Say(Line("%s", <<VDict(payload')>>))
       ELSE UNCHANGED output
    /\ pc' = "request"
    /\ UNCHANGED <<args, fs, euid, debug, main_debug, auth_token, requests,
                   exitStatus>>

\* line 28
API == "https://api.pinboard.in/v1/"

\* line 70: requests.get(API + "posts/add", params=payload) is called
HttpGet ==
    /\ pc = "request"
    /\ Step("HttpGet")
    /\ UNCHANGED outcomes
    /\ requests' = Append(requests, [url |-> API \o "posts/add",
                                      params |-> payload,
                                      printed |-> Len(output)])
    /\ pc' = "waiting"
    /\ UNCHANGED <<args, fs, euid, debug, main_debug, auth_token, payload,
                   output, exitStatus>>

\* lines 69-74 with one more try after a failure
AfterHttpRetry(failed) ==
    IF failed /\ Len(requests) < 2 THEN "request" ELSE "return"

\* lines 69-74: whatever the outcome, __init__ returns to main
AfterHttp(failed) == "return"

\* line 71: r.status_code != 200
IsErrorStatus(status) == status # 200

\* lines 70-72: the call returns a response
HttpResponse ==
    /\ pc = "waiting"
    /\ \E status \in StatusCodes :
         /\ IF IsErrorStatus(status)
            THEN Say(Line("ERROR: Status code %s for %s",
                          <<VInt(status), VDict(payload)>>))
            ELSE UNCHANGED output
         /\ pc' = AfterHttp(IsErrorStatus(status))
         /\ outcomes' = Append(outcomes, Response(status))
    /\ Step("HttpResponse")
    /\ UNCHANGED <<args, fs, euid, debug, main_debug, auth_token, payload,
                   requests, exitStatus>>

\* line 73 as `except requests.ConnectionError`
CaughtConnectionOnly(e) == e = "ConnectionError"

\* line 73: `except Exception` catches every transport error of requests
Caught(e) == e \in TransportErrors

\* lines 70, 73-74: the call raises; an exception no clause catches leaves
\* __init__ and main, and the interpreter prints it and exits with status 1
HttpException ==
    /\ pc = "waiting"
    /\ Step("HttpException")
    /\ \E e \in TransportErrors :
         /\ outcomes' = Append(outcomes, Exception(e))
         /\ IF Caught(e)
            THEN /\ Say(Line("ERROR for %s: %s", <<VDict(payload), VExc(e)>>))
                 /\ pc' = AfterHttp(TRUE)
                 /\ UNCHANGED exitStatus
            ELSE /\ Say(Line("Traceback (most recent call last): %s",
                             <<VExc(e)>>))
                 /\ Exit(1)
    /\ UNCHANGED <<args, fs, euid, debug, main_debug, auth_token, payload,
                   requests>>

\* lines 150-153: main returns and the interpreter exits with status 0
MainReturns ==
    /\ pc = "return"
    /\ Step("MainReturns")
    /\ UNCHANGED outcomes
    /\ Exit(0)
    /\ UNCHANGED <<args, fs, euid, debug, main_debug, auth_token, payload,
                   output, requests>>

Next ==
    \/ SetDebug
    \/ CheckExistsMissing
    \/ CheckExistsOk
    \/ LoadTokenRaises
    \/ LoadTokenReturns
    \/ PinboardPayload
    \/ HttpGet
    \/ HttpResponse
    \/ HttpException
    \/ MainReturns

---------------------------------------------------------------------------
(* Specifications *)

\* tag lists and config files of the whole-program runs
MainTags ==
    { <<>>,
      << <<"f", "o", "o", " ", "b", "a", "r">>,
         <<"b", "a", "z", ",", "q", "u", "x">> >>,
      << <<"a">>, <<" ">>, <<"a">> >> }

MainContents ==
    { <<>>,
      << AUTH_TOKEN \o <<"=", "A", "B", "C", "1", "2", "3">> >>,
      << <<"#", " ", "c">>, <<"o", "=", "B">> >> }

MainFiles ==
    {Missing} \cup {Dir(m) : m \in {448, 493}}
        \cup {File(m, c) : m \in Modes, c \in MainContents}

Init ==
    InitFrom(ArgSets(MainTags, {<<>>, <<"d", "e", "s", "c">>}, BOOLEAN),
             MainFiles, {0, 1000})

Spec == Init /\ [][Next]_vars

\* the run is never suspended for ever: every step that can be taken is
\* taken, the blocking requests.get included (it returns or raises)
FairSpec == Spec /\ WF_vars(Next)

\* the config files of SpecToken: every file of at most MaxLines lines
TokenFiles ==
    {Missing, Dir(448)}
        \cup {File(m, c) : m \in {384, 416, 128},
                            c \in SeqsUpTo(ConfigLines, MaxLines)}

InitToken == InitFrom(ArgSets({<<>>}, {<<>>}, {FALSE}), TokenFiles, {1000})

\* get_auth_token over many config files
SpecToken == InitToken /\ [][Next]_vars

\* the tag lists of SpecTags: None and every list of at most MaxTags tags
TagLists == SeqsUpTo(TagStrings, MaxTags)

TagFiles ==
    {Missing, File(416, <<>>), File(384, <<AUTH_TOKEN \o <<"=", "A">>>>)}

InitTags == InitFrom(ArgSets(TagLists, {<<>>}, {FALSE}), TagFiles, {1000})

\* the payload over many -t/--tag lists
SpecTags == InitTags /\ [][Next]_vars

---------------------------------------------------------------------------
(* What the properties speak of *)

Min(S) == CHOOSE x \in S : \A y \in S : x <= y
Max(S) == CHOOSE x \in S : \A y \in S : y <= x

\* the config file the run was pointed at
Config == fs[args.config]

\* mode & 0o077: the six low permission bits
GroupOtherBits(mode) == mode % 64

\* opening the config file for reading fails: it is a directory, or the
\* owner's read bit (0o400) is clear and the user is not root
Unreadable ==
    Config.kind = "dir" \/ (euid # 0 /\ (Config.mode \div 256) % 2 = 0)

\* the token lookup has returned to main
Loaded == "LoadTokenReturns" \in Range(steps)

\* Pinboard.__init__ has built its payload
Built == "PinboardPayload" \in Range(steps)

\* a line without its surrounding whitespace
Trim(l) ==
    LET solid == {i \in DOMAIN l : l[i] \notin Whitespace}
    IN  IF solid = {} THEN <<>> ELSE SubSeq(l, Min(solid), Max(solid))

\* the line's key is auth_token: it is "auth_token" or starts "auth_token="
IsAuthLine(l) ==
    LET t == Trim(l)
        n == Len(AUTH_TOKEN)
    IN  t = AUTH_TOKEN \/ (Len(t) > n /\ SubSeq(t, 1, n + 1) = AUTH_TOKEN \o <<"=">>)

\* the text after the first "=" of an auth_token line
AuthValue(l) ==
    LET t == Trim(l)
    IN  SubSeq(t, Len(AUTH_TOKEN) + 2, Len(t))

AuthLines(lines) == {i \in DOMAIN lines : IsAuthLine(lines[i])}

\* the value of the first auth_token line, "" without one
FirstAuthValue(lines) ==
    IF AuthLines(lines) = {} THEN <<>>
    ELSE AuthValue(lines[Min(AuthLines(lines))])

\* the printed line shows the string s
LineShows(line, s) ==
    \E i \in DOMAIN line.args :
        LET a == line.args[i]
        IN  \/ a.t = "str" /\ a.v = s
            \/ a.t = "dict" /\ \E k \in DOMAIN a.v : a.v[k] = s
            \/ a.t = "namespace"
                  /\ (s \in {a.v.url, a.v.title, a.v.description}
                        \/ s \in Range(a.v.tag))

LineShowsInt(line, n) ==
    \E i \in DOMAIN line.args : line.args[i].t = "int" /\ line.args[i].v = n

LineShowsExc(line, e) ==
    \E i \in DOMAIN line.args : line.args[i].t = "exc" /\ line.args[i].v = e

LineShowsDict(line, d) ==
    \E i \in DOMAIN line.args : line.args[i].t = "dict" /\ line.args[i].v = d

LineShowsNamespace(line) ==
    \E i \in DOMAIN line.args : line.args[i].t = "namespace"

\* the two error lines of Pinboard.__init__
IsHttpErrorLine(line) ==
    line.fmt \in {"ERROR: Status code %s for %s", "ERROR for %s: %s"}

\* the call of requests.get has completed, and how
Completed == outcomes # <<>>
Failed(o) == o.kind = "exception" \/ o.status # 200

\* the lines printed since the (first) request was issued
PrintedSinceGet == SubSeq(output, requests[1].printed + 1, Len(output))

---------------------------------------------------------------------------
(* C1 *)

\* C1, as claimed: the run exits with status 1 exactly when the config file
\* does not exist or its mode has a group/other bit set, no request is
\* issued in those two cases, and in every other case the status is 0.
C1_AsClaimed ==
    LET refused == ~Config.exists \/ GroupOtherBits(Config.mode) # 0
    IN  /\ refused => requests = <<>>
        /\ pc = "exited" =>
              /\ exitStatus = 1 <=> refused
              /\ ~refused => exitStatus = 0

\* C1, amended: the run exits with status 1 exactly when the config file
\* does not exist, its mode has a group/other bit set, or it cannot be
\* opened for reading (a directory, or no owner read bit and not root); no
\* request is issued in those cases; in every other case, a non-200
\* response and a transport exception included, the status is 0.
C1_ExitStatus ==
    LET refused ==
            \/ ~Config.exists
            \/ GroupOtherBits(Config.mode) # 0
            \/ Unreadable
    IN  /\ refused => requests = <<>>
        /\ pc = "exited" =>
              /\ exitStatus = 1 <=> refused
              /\ ~refused => exitStatus = 0 /\ Completed

\* a file that exists with no group/other bit but cannot be read: exit 1
C1_Witness ==
    /\ pc = "exited"
    /\ exitStatus = 1
    /\ Config.exists
    /\ Config.kind = "file"
    /\ GroupOtherBits(Config.mode) = 0

---------------------------------------------------------------------------
(* C2 *)

\* C2: when get_auth_token returns, its value is the text after the first
\* "=" of the first line, in file order, whose key is auth_token (blank
\* and # lines never count, later auth_token lines and other keys do not
\* matter), and the empty string when there is no such line; and for a
\* readable file with no group/other bit it does return.
C2_FirstAuthToken ==
    /\ Loaded => auth_token = FirstAuthValue(Config.lines)
    /\ (pc \notin {"main", "exists", "load"} /\ Config.exists
          /\ GroupOtherBits(Config.mode) = 0 /\ ~Unreadable) => Loaded

\* two auth_token lines with different values, after a line that is
\* skipped: the first value was returned
C2_Witness ==
    /\ Loaded
    /\ Len(Config.lines) = 2
    /\ AuthLines(Config.lines) = {1, 2}
    /\ AuthValue(Config.lines[1]) # AuthValue(Config.lines[2])
    /\ auth_token = AuthValue(Config.lines[1])
    /\ auth_token # <<>>

---------------------------------------------------------------------------
(* C3 *)

\* C3, as claimed: without -d/--debug no printed line, the error line of a
\* non-200 response or of a transport exception included, shows the token.
C3_AsClaimed ==
    (~args.debug /\ Loaded /\ auth_token # <<>>) =>
        \A i \in DOMAIN output : ~LineShows(output[i], auth_token)

---------------------------------------------------------------------------
(* C4 *)

\* C4, as claimed: a config file that exists and passes the permission
\* check but yields no token (no auth_token entry, or content that cannot
\* be read) ends the run with a message and status 1, with no request.
C4_AsClaimed ==
    (Config.exists /\ GroupOtherBits(Config.mode) = 0
        /\ (Unreadable \/ AuthLines(Config.lines) = {})) =>
        /\ requests = <<>>
        /\ pc = "exited" => exitStatus = 1 /\ output # <<>>

\* C4, amended: when the config file exists and passes the permission
\* check but cannot be read, the run prints the error and exits with
\* status 1 without a request; when it is readable but has no auth_token
\* entry, the token is the empty string, the request is issued with
\* auth_token = "" and the run exits with status 0.
C4_NoToken ==
    (Config.exists /\ GroupOtherBits(Config.mode) = 0) =>
        /\ Unreadable =>
              /\ requests = <<>>
              /\ pc = "exited" =>
                    /\ exitStatus = 1
                    /\ output # <<>>
                    /\ output[Len(output)].fmt = "[Errno %s] %s: '%s'"
        /\ (~Unreadable /\ AuthLines(Config.lines) = {}) =>
              /\ Loaded => auth_token = <<>>
              /\ pc = "exited" =>
                    /\ exitStatus = 0
                    /\ Len(requests) = 1
                    /\ requests[1].params["auth_token"] = <<>>

\* a readable file without an auth_token entry: request sent, exit 0
C4_Witness ==
    /\ pc = "exited"
    /\ Config.exists /\ ~Unreadable
    /\ Config.lines # <<>>
    /\ AuthLines(Config.lines) = {}
    /\ Len(requests) = 1
    /\ exitStatus = 0

---------------------------------------------------------------------------
(* C5 *)

\* a tags value that splits on single spaces into non-empty tags only: no
\* leading, trailing or doubled space (the value of no tag at all is let
\* through)
WellSpaced(v) ==
    /\ v # <<>> => v[1] # " " /\ v[Len(v)] # " "
    /\ \A i \in 1..(Len(v) - 1) : ~(v[i] = " " /\ v[i + 1] = " ")

\* the tags as the claim normalizes them: each without its spaces and
\* commas, in command-line order
CleanTags(tags) ==
    [i \in DOMAIN tags |-> SelectSeq(tags[i], LAMBDA c : c # " " /\ c # ",")]

\* C5, as claimed: the payload has a tags key only when tags were
\* supplied, and its value is the supplied tags in command-line order,
\* each without its spaces and commas, joined by exactly one space: no
\* comma, and only non-empty tags when split on single spaces.
C5_AsClaimed ==
    Built =>
        /\ "tags" \in DOMAIN payload => args.tag # <<>>
        /\ "tags" \in DOMAIN payload =>
              /\ "," \notin Range(payload["tags"])
              /\ WellSpaced(payload["tags"])
              /\ payload["tags"] =
                    Join(SelectSeq(CleanTags(args.tag), LAMBDA t : t # <<>>),
                         <<" ">>)

---------------------------------------------------------------------------
(* C6 *)

\* C6: the payload has the key extended exactly when a non-empty
\* description was supplied, and its value is then that description; with
\* the description omitted the key is absent. The request carries that
\* payload.
C6_Extended ==
    Built =>
        /\ "extended" \in DOMAIN payload <=> args.description # <<>>
        /\ "extended" \in DOMAIN payload =>
              payload["extended"] = args.description
        /\ \A i \in DOMAIN requests : requests[i].params = payload

\* a request sent for a run without a description: no extended key
C6_Witness ==
    /\ requests # <<>>
    /\ args.description = <<>>
    /\ "extended" \notin DOMAIN requests[1].params

---------------------------------------------------------------------------
(* C7 *)

\* C7: the payload always has url (the url argument), description (the
\* title argument), auth_token (the loaded token), replace, shared and
\* toread, each of the last three "yes" exactly when its own flag
\* (--replace, --shared, --later) was passed and "no" otherwise.
C7_FixedKeys ==
    Built =>
        /\ {"url", "description", "auth_token", "replace", "shared", "toread"}
              \subseteq DOMAIN payload
        /\ payload["url"] = args.url
        /\ payload["description"] = args.title
        /\ payload["auth_token"] = FirstAuthValue(Config.lines)
        /\ payload["replace"] = (IF args.replace THEN <<"y", "e", "s">> ELSE <<"n", "o">>)
        /\ payload["shared"] = (IF args.shared THEN <<"y", "e", "s">> ELSE <<"n", "o">>)
        /\ payload["toread"] = (IF args.later THEN <<"y", "e", "s">> ELSE <<"n", "o">>)

\* a payload built with --replace and --later but without --shared
C7_Witness ==
    /\ Built
    /\ args.replace /\ ~args.shared /\ args.later
    /\ payload["replace"] = <<"y", "e", "s">>
    /\ payload["shared"] = <<"n", "o">>
    /\ payload["auth_token"] # <<>>

---------------------------------------------------------------------------
(* C8 *)

\* C8: once the HTTP call has completed, a 200 response has printed
\* nothing; any other status has printed exactly one error line showing
\* the status code and the payload; a transport exception has printed
\* exactly one error line showing the exception's text; and no exception
\* has left the submitter: the run goes on to return and exits with 0.
C8_HttpOutcome ==
    Completed =>
        LET o == outcomes[1]
            said == PrintedSinceGet
        IN  /\ (o.kind = "response" /\ o.status = 200) => said = <<>>
            /\ (o.kind = "response" /\ o.status # 200) =>
                  /\ Len(said) = 1
                  /\ said[1].fmt = "ERROR: Status code %s for %s"
                  /\ LineShowsInt(said[1], o.status)
                  /\ LineShowsDict(said[1], payload)
            /\ o.kind = "exception" =>
                  /\ Len(said) = 1
                  /\ said[1].fmt = "ERROR for %s: %s"
                  /\ LineShowsExc(said[1], o.exc)
            /\ pc \in {"return", "exited"}
            /\ pc = "exited" => exitStatus = 0

\* a run whose call raised a timeout and that still exited with status 0
C8_Witness ==
    /\ Completed
    /\ outcomes[1].kind = "exception"
    /\ outcomes[1].exc = "Timeout"
    /\ pc = "exited"
    /\ exitStatus = 0

---------------------------------------------------------------------------
(* C9 *)

\* position of the first step named n in the history, 0 if it was not taken
At(n) ==
    IF n \in Range(steps) THEN Min({i \in DOMAIN steps : steps[i] = n}) ELSE 0

C9_Order ==
    /\ Len(requests) <= 1
    /\ Cardinality({i \in DOMAIN steps : steps[i] = "HttpGet"}) <= 1
    /\ requests # <<>> =>
          /\ Config.exists
          /\ GroupOtherBits(Config.mode) = 0
          /\ 0 < At("CheckExistsOk")
          /\ At("CheckExistsOk") < At("LoadTokenReturns")
          /\ At("LoadTokenReturns") < At("HttpGet")

---------------------------------------------------------------------------
(* C10 *)

\* C10, as claimed: with -d/--debug the parsed arguments and then the
\* payload are printed before the request is issued; without it neither
\* is printed on a successful run.
C10_AsClaimed ==
    /\ (args.debug /\ requests # <<>>) =>
          /\ requests[1].printed >= 2
          /\ LineShowsNamespace(output[1])
          /\ LineShowsDict(output[2], payload)
    /\ (~args.debug /\ Completed /\ ~Failed(outcomes[1])) => output = <<>>

====
